---- MODULE Spec2Model ----
(***************************************************************************)
(* Call-transcript analysis core of src/src/utils/dataAnalysis.js:         *)
(* boundary calculation, stage generation, stage partitioning, statistics  *)
(* and citation matching, as pure functions applied to a loaded sentence   *)
(* list.  The module-level tables STAGE_DEFINITIONS and KEYWORDS are        *)
(* objects the functions read at every call, so they are state.            *)
(*                                                                         *)
(* Representation choices                                                  *)
(*  - a JS array is a sequence; JS indices are 0-based, so the element at  *)
(*    JS index idx is items[idx + 1];                                      *)
(*  - an argument that may be null/undefined is a record                   *)
(*    [isNull, items]; `!x` of the source is x.isNull;                     *)
(*  - a string is a sequence of one-character strings, so that             *)
(*    toLowerCase and includes are computed, not assumed;                  *)
(*  - a sentence object carries `ref`, its object identity (filter and     *)
(*    push keep references to the very objects of the input array);        *)
(*  - startPercent / endPercent hold tenths of a percent (1.4 is 14), and  *)
(*    confidence holds hundredths (0.7 is 70), to stay in the integers;    *)
(*  - a percentage produced by toFixed(1) holds tenths ("20.0" is 200).    *)
(***************************************************************************)
EXTENDS Integers, Sequences, FiniteSets, TLC

VARIABLES
    sentences,   \* the sentence list handed to the core (possibly missing)
    citations,   \* the citation pattern list handed to findCitationMatches
    result,      \* the outcome of the most recent call of a core function
    stageDefinitions,   \* the module-level array STAGE_DEFINITIONS
    keywordTable,       \* the module-level object KEYWORDS
    loading,            \* App state: the transcript is being loaded
    activeStage,        \* App state: the id of the stage shown
    activeCitations,    \* App state: the citation navigation, or null
    initialSelectionDone,   \* App ref: the auto-selection has been scheduled
    timeout,            \* the setTimeout callback scheduled, with its closure
    fetchPending        \* the fetch of the transcript has not settled

appVars == <<loading, activeStage, activeCitations, initialSelectionDone,
             timeout, fetchPending>>

vars == <<sentences, citations, result, stageDefinitions, keywordTable,
          loading, activeStage, activeCitations, initialSelectionDone,
          timeout, fetchPending>>

-----------------------------------------------------------------------------
(* Bounds of the model *)

MaxLen == 3      \* longest sentence list
MaxCites == 2    \* longest citation pattern list
MaxTime == 50    \* latest timestamp of the lists that vary the call boundaries

-----------------------------------------------------------------------------
(* Nullable arguments *)

Missing == [isNull |-> TRUE, items |-> <<>>]
Given(list) == [isNull |-> FALSE, items |-> list]

-----------------------------------------------------------------------------
(* Strings *)

UpperCase == <<"A","B","C","D","E","F","G","H","I","J","K","L","M",
               "N","O","P","Q","R","S","T","U","V","W","X","Y","Z">>
LowerCase == <<"a","b","c","d","e","f","g","h","i","j","k","l","m",
               "n","o","p","q","r","s","t","u","v","w","x","y","z">>

\* the lower-case letter of each upper-case letter
LowerOf ==
    [c \in {UpperCase[k] : k \in 1..Len(UpperCase)} |->
        LowerCase[CHOOSE k \in 1..Len(UpperCase) : UpperCase[k] = c]]

LowerChar(c) == IF c \in DOMAIN LowerOf THEN LowerOf[c] ELSE c

\* variant: the case is left as it is
toLowerCaseIdentity(str) == str

\* String.prototype.toLowerCase
toLowerCase(str) == [k \in 1..Len(str) |-> LowerChar(str[k])]

\* variant: startsWith in place of includes
includesAtStart(str, pat) == Len(pat) <= Len(str) /\ SubSeq(str, 1, Len(pat)) = pat

\* String.prototype.includes: pat occurs in str as a contiguous substring
includes(str, pat) ==
    \E k \in 0..(Len(str) - Len(pat)) : SubSeq(str, k + 1, k + Len(pat)) = pat

-----------------------------------------------------------------------------
(* Math.round: nearest integer, a tie going up; x = num / den, den > 0 *)

MathRound(num, den) == (2 * num + den) \div (2 * den)

-----------------------------------------------------------------------------
(* Static configuration *)

\* variant: the solution stage starts after the diagnosis stage has ended
STAGE_DEFINITIONS_WithGap == <<
    [id |-> "introduction", startPercent |-> 0,   endPercent |-> 14],
    [id |-> "diagnosis",    startPercent |-> 14,  endPercent |-> 38],
    [id |-> "solution",     startPercent |-> 40,  endPercent |-> 440],
    [id |-> "upsell",       startPercent |-> 440, endPercent |-> 780],
    [id |-> "maintenance",  startPercent |-> 780, endPercent |-> 830],
    [id |-> "closing",      startPercent |-> 830, endPercent |-> 1000] >>

STAGE_DEFINITIONS == <<
    [id |-> "introduction", startPercent |-> 0,   endPercent |-> 14],
    [id |-> "diagnosis",    startPercent |-> 14,  endPercent |-> 38],
    [id |-> "solution",     startPercent |-> 38,  endPercent |-> 440],
    [id |-> "upsell",       startPercent |-> 440, endPercent |-> 780],
    [id |-> "maintenance",  startPercent |-> 780, endPercent |-> 830],
    [id |-> "closing",      startPercent |-> 830, endPercent |-> 1000] >>

\* STAGE_DEFINITIONS of the other copies of the data module
STAGE_DEFINITIONS_part_000 == <<
    [id |-> "introduction", startPercent |-> 0,   endPercent |-> 35],
    [id |-> "diagnosis",    startPercent |-> 35,  endPercent |-> 55],
    [id |-> "solution",     startPercent |-> 55,  endPercent |-> 450],
    [id |-> "upsell",       startPercent |-> 450, endPercent |-> 750],
    [id |-> "decision",     startPercent |-> 750, endPercent |-> 820],
    [id |-> "closing",      startPercent |-> 820, endPercent |-> 1000] >>

STAGE_DEFINITIONS_part_002 == <<
    [id |-> "introduction", startPercent |-> 0,   endPercent |-> 35],
    [id |-> "diagnosis",    startPercent |-> 35,  endPercent |-> 55],
    [id |-> "solution",     startPercent |-> 55,  endPercent |-> 450],
    [id |-> "upsell",       startPercent |-> 450, endPercent |-> 750],
    [id |-> "decision",     startPercent |-> 750, endPercent |-> 820],
    [id |-> "closing",      startPercent |-> 820, endPercent |-> 1000] >>

STAGE_DEFINITIONS_part_003 == <<
    [id |-> "introduction", startPercent |-> 0,   endPercent |-> 35],
    [id |-> "diagnosis",    startPercent |-> 35,  endPercent |-> 55],
    [id |-> "solution",     startPercent |-> 55,  endPercent |-> 450],
    [id |-> "upsell",       startPercent |-> 450, endPercent |-> 750],
    [id |-> "maintenance",  startPercent |-> 750, endPercent |-> 820],
    [id |-> "closing",      startPercent |-> 820, endPercent |-> 1000] >>

(* The analysis of each stage: STAGE_DEFINITIONS[k].analysis *)

Analysis_introduction ==
    [strengths |-> <<
            [text |-> "Customer addressed by first name (\"Hey, Luis\")",
             citations |-> <<<<"H","e","y",","," ","L","u","i","s">>>>],
            [text |-> "Warm, conversational tone throughout",
             citations |-> <<<<"G","o","t"," ","y","o","u"," ","a","l","l"," ","d","o","n","e">>,
                           <<"b","u","i","l","t"," ","a","l","l"," ","y","o","u","r"," ","e","q","u","i","p","m","e","n","t"," ","o","p","t","i","o","n","s">>>>],
            [text |-> "Natural rapport building (cats discussion, work-from-home chat)",
             citations |-> <<<<"w","o","r","k"," ","f","r","o","m"," ","h","o","m","e">>,
                           <<"c","a","t","s">>,
                           <<"I"," ","k","n","o","w"," ","t","h","i","s"," ","i","s"," ","n","o","t"," ","l","i","k","e"," ","a"," ","s","a","l","e","s"," ","c","a","l","l">>>>] >>,
     gaps |-> <<
            [text |-> "No formal company introduction",
             citations |-> <<>>],
            [text |-> "No clear statement of purpose for the call",
             citations |-> <<>>],
            [text |-> "Jumped directly into technical discussion",
             citations |-> <<<<"b","u","i","l","t"," ","a","l","l"," ","y","o","u","r"," ","e","q","u","i","p","m","e","n","t"," ","o","p","t","i","o","n","s"," ","w","h","e","n"," ","I"," ","w","a","s"," ","o","u","t"," ","t","h","e","r","e">>>>] >>]

Analysis_diagnosis ==
    [strengths |-> <<
            [text |-> "Specific technical measurements shared (temperature differentials)",
             citations |-> <<<<"t","e","m","p","e","r","a","t","u","r","e"," ","d","i","f","f","e","r","e","n","t","i","a","l">>,
                           <<"d","e","g","r","e","e","s"," ","c","o","m","i","n","g"," ","o","u","t">>,
                           <<"1","9"," ","d","e","g","r","e","e","s">>>>],
            [text |-> "Honest about repair being temporary (\"bandaid\")",
             citations |-> <<<<"b","a","n","d","a","i","d">>,
                           <<"t","e","m","p","o","r","a","r","y">>>>],
            [text |-> "Clear timeline expectations (1-2 months)",
             citations |-> <<<<"m","o","n","t","h"," ","t","o"," ","t","w","o"," ","m","o","n","t","h","s">>,
                           <<"e","f","f","i","c","i","e","n","c","y"," ","d","r","o","p"," ","a","g","a","i","n">>>>],
            [text |-> "Mentioned mold issues as additional concern",
             citations |-> <<<<"m","o","l","d">>,
                           <<"m","o","l","d"," ","i","s","s","u","e","s">>>>] >>,
     gaps |-> <<
            [text |-> "Didn't ask customer about symptoms or history",
             citations |-> <<>>],
            [text |-> "Assumed customer understood technical terms",
             citations |-> <<<<"r","e","f","r","i","g","e","r","a","n","t">>,
                           <<"R","3","2">>,
                           <<"i","n","v","e","r","t","e","r">>>>] >>]

Analysis_solution ==
    [strengths |-> <<
            [text |-> "Presented 4 comprehensive equipment options",
             citations |-> <<<<"f","o","u","r"," ","o","p","t","i","o","n","s">>,
                           <<"O","p","t","i","o","n"," ","o","n","e">>,
                           <<"o","p","t","i","o","n"," ","t","w","o">>,
                           <<"o","p","t","i","o","n"," ","t","h","r","e","e">>,
                           <<"o","p","t","i","o","n"," ","f","o","u","r">>>>],
            [text |-> "Explained technical concepts (R32 refrigerant, inverter technology)",
             citations |-> <<<<"R","3","2">>,
                           <<"i","n","v","e","r","t","e","r">>,
                           <<"r","e","f","r","i","g","e","r","a","n","t">>>>],
            [text |-> "Adapted in real-time to customer preferences",
             citations |-> <<<<"I","f"," ","y","o","u"," ","w","a","n","t",","," ","I"," ","c","a","n"," ","b","u","i","l","d"," ","y","o","u"," ","a"," ","c","u","s","t","o","m"," ","o","p","t","i","o","n">>,
                           <<"B","o","s","c","h">>>>],
            [text |-> "Used relatable analogies (mini-split comparison)",
             citations |-> <<<<"m","i","n","i"," ","s","p","l","i","t">>,
                           <<"d","u","c","t","l","e","s","s">>>>],
            [text |-> "Honest about trade-offs (attic = less efficient but more space)",
             citations |-> <<<<"a","t","t","i","c">>,
                           <<"l","e","s","s"," ","e","f","f","i","c","i","e","n","t">>,
                           <<"g","a","r","a","g","e"," ","s","p","a","c","e">>>>] >>,
     gaps |-> <<
            [text |-> "Potentially overwhelming amount of information",
             citations |-> <<<<"a"," ","l","o","t"," ","o","f"," ","i","n","f","o","r","m","a","t","i","o","n">>,
                           <<"l","o","t"," ","t","o"," ","t","a","k","e"," ","i","n">>>>],
            [text |-> "Talk time heavily technician-dominated (89%)",
             citations |-> <<>>] >>]

Analysis_upsell ==
    [strengths |-> <<
            [text |-> "Education-based selling, not pushy",
             citations |-> <<<<"I","'","m"," ","g","o","i","n","g"," ","t","o"," ","g","o"," ","o","v","e","r"," ","w","i","t","h"," ","y","o","u">>,
                           <<"l","e","t"," ","m","e"," ","e","x","p","l","a","i","n">>,
                           <<"m","a","k","e"," ","s","e","n","s","e">>>>],
            [text |-> "Connected features to customer concerns (noise -> inverter)",
             citations |-> <<<<"n","o","i","s","e">>,
                           <<"q","u","i","e","t">>,
                           <<"i","n","v","e","r","t","e","r">>,
                           <<"d","e","c","i","b","e","l","s">>>>],
            [text |-> "Proactively addressed cost barriers with rebates/financing",
             citations |-> <<<<"r","e","b","a","t","e">>,
                           <<"f","i","n","a","n","c","i","n","g">>,
                           <<"a","f","f","o","r","d","a","b","l","e">>,
                           <<"m","o","n","t","h","l","y"," ","p","a","y","m","e","n","t">>>>],
            [text |-> "Successfully narrowed from 4 options to 2",
             citations |-> <<<<"t","h","e","s","e"," ","t","w","o">>,
                           <<"n","o","t"," ","i","n","t","e","r","e","s","t","e","d"," ","o","n"," ","t","h","e"," ","g","a","s">>,
                           <<"h","e","a","t"," ","p","u","m","p">>>>],
            [text |-> "Explained rebates: SVCE ($2,500), Tech ($1,500), Energy Star ($1-2K)",
             citations |-> <<<<"S","V","C","E">>,
                           <<"2","5","0","0">>,
                           <<"1","5","0","0">>,
                           <<"E","n","e","r","g","y"," ","S","t","a","r">>,
                           <<"t","e","c","h"," ","c","l","e","a","n">>>>] >>,
     gaps |-> <<
            [text |-> "Could have checked for understanding more frequently",
             citations |-> <<<<"m","a","k","e"," ","s","e","n","s","e">>,
                           <<"d","o","e","s"," ","t","h","a","t"," ","m","a","k","e"," ","s","e","n","s","e">>>>] >>]

Analysis_maintenance ==
    [strengths |-> <<
            [text |-> "Tied maintenance to concrete benefit (warranty matching)",
             citations |-> <<<<"m","a","i","n","t","e","n","a","n","c","e"," ","p","r","o","g","r","a","m">>,
                           <<"m","a","t","c","h"," ","t","h","e"," ","m","a","n","u","f","a","c","t","u","r","e","r"," ","w","a","r","r","a","n","t","i","e","s">>,
                           <<"1","0"," ","y","e","a","r","s"," ","p","a","r","t","s">>>>] >>,
     gaps |-> <<
            [text |-> "Only mentioned maintenance plan ONCE, briefly",
             citations |-> <<<<"m","a","i","n","t","e","n","a","n","c","e"," ","p","r","o","g","r","a","m">>>>],
            [text |-> "No explanation of what the plan includes",
             citations |-> <<>>],
            [text |-> "No pricing presented for maintenance plan",
             citations |-> <<>>],
            [text |-> "No follow-up or soft close on this offer",
             citations |-> <<>>],
            [text |-> "Missed opportunity given customer's reliability concerns",
             citations |-> <<<<"r","e","l","i","a","b","l","e">>,
                           <<"l","a","s","t"," ","l","o","n","g">>,
                           <<"w","o","r","r","y">>>>] >>]

Analysis_closing ==
    [strengths |-> <<
            [text |-> "Secured $1,000 commitment",
             citations |-> <<<<"1","0","0","0">>,
                           <<"t","h","o","u","s","a","n","d">>,
                           <<"d","e","p","o","s","i","t">>>>],
            [text |-> "Reduced options from 4 to 2 for clarity",
             citations |-> <<<<"t","h","e","s","e"," ","t","w","o">>,
                           <<"n","a","r","r","o","w"," ","i","t"," ","d","o","w","n">>>>],
            [text |-> "Referenced 3-day right to cancel as reassurance",
             citations |-> <<<<"t","h","r","e","e"," ","d","a","y">>,
                           <<"c","a","n","c","e","l">>,
                           <<"r","i","g","h","t"," ","t","o"," ","c","a","n","c","e","l">>>>],
            [text |-> "Promised to send cleaned-up estimates via email",
             citations |-> <<<<"s","e","n","d">>,
                           <<"e","m","a","i","l">>,
                           <<"c","l","e","a","n","e","d"," ","u","p">>>>] >>,
     gaps |-> <<
            [text |-> "Persisted after customer initially said \"no\"",
             citations |-> <<<<"w","o","n","'","t"," ","d","o"," ","t","h","a","t"," ","t","o","d","a","y">>,
                           <<"t","a","l","k"," ","t","o"," ","h","e","r">>,
                           <<"m","a","k","e"," ","a"," ","d","e","c","i","s","i","o","n">>>>],
            [text |-> "No formal thank you expressed",
             citations |-> <<>>],
            [text |-> "No clear follow-up timeline established",
             citations |-> <<>>],
            [text |-> "Didn't offer to include wife in follow-up call",
             citations |-> <<<<"w","i","f","e">>,
                           <<"t","a","l","k"," ","t","o"," ","h","e","r">>>>],
            [text |-> "Ending felt slightly pressured rather than gracious",
             citations |-> <<<<"w","e"," ","c","a","n"," ","j","u","s","t"," ","d","o"," ","i","t"," ","t","o","d","a","y">>,
                           <<"w","o","n","'","t"," ","d","o"," ","t","h","a","t"," ","t","o","d","a","y">>>>] >>]

\* stage.analysis of the stage with the id
StageAnalysis(id) ==
    CASE id = "introduction" -> Analysis_introduction
      [] id = "diagnosis"    -> Analysis_diagnosis
      [] id = "solution"     -> Analysis_solution
      [] id = "upsell"       -> Analysis_upsell
      [] id = "maintenance"  -> Analysis_maintenance
      [] id = "closing"      -> Analysis_closing

\* KEYWORDS, in the insertion order Object.keys yields
KEYWORDS == <<
    [kw |-> <<"h","e","a","t"," ","p","u","m","p">>,
     category |-> "product", color |-> "#059669"],
    [kw |-> <<"r","e","b","a","t","e">>,
     category |-> "incentive", color |-> "#d97706"],
    [kw |-> <<"f","i","n","a","n","c","i","n","g">>,
     category |-> "sales", color |-> "#0d9488"],
    [kw |-> <<"w","a","r","r","a","n","t","y">>,
     category |-> "protection", color |-> "#0891b2"],
    [kw |-> <<"m","a","i","n","t","e","n","a","n","c","e">>,
     category |-> "service", color |-> "#ea580c"],
    [kw |-> <<"e","f","f","i","c","i","e","n","c","y">>,
     category |-> "benefit", color |-> "#0891b2"],
    [kw |-> <<"p","r","i","c","e">>,
     category |-> "cost", color |-> "#dc2626"],
    [kw |-> <<"e","n","e","r","g","y"," ","s","t","a","r">>,
     category |-> "certification", color |-> "#059669"],
    [kw |-> <<"i","n","v","e","r","t","e","r">>,
     category |-> "technology", color |-> "#0d9488"] >>

-----------------------------------------------------------------------------
(* getCallBoundaries *)

\* variant: the boundaries span the earliest start and the latest end
getCallBoundariesMinMax(s) ==
    IF s.isNull \/ Len(s.items) = 0
    THEN [start |-> 0, end |-> 0, duration |-> 0]
    ELSE LET start == CHOOSE t \in {s.items[i].start : i \in 1..Len(s.items)} :
                          \A i \in 1..Len(s.items) : t <= s.items[i].start
             end   == CHOOSE t \in {s.items[i].end : i \in 1..Len(s.items)} :
                          \A i \in 1..Len(s.items) : t >= s.items[i].end
         IN  [start |-> start, end |-> end, duration |-> end - start]

getCallBoundaries(s) ==
    IF s.isNull \/ Len(s.items) = 0
    THEN [start |-> 0, end |-> 0, duration |-> 0]
    ELSE LET start == s.items[1].start
             end   == s.items[Len(s.items)].end
         IN  [start |-> start, end |-> end, duration |-> end - start]

-----------------------------------------------------------------------------
(* generateCallStages *)

\* variant: the call start is not added
StageTimeFromZero(start, duration, percent) == MathRound(duration * percent, 1000)

\* variant: Math.floor in place of Math.round
StageTimeFloor(start, duration, percent) ==
    (1000 * start + duration * percent) \div 1000

\* startTime / endTime of one stage: Math.round(start + duration * percent / 100)
StageTime(start, duration, percent) ==
    MathRound(1000 * start + duration * percent, 1000)

\* variant: no early return, the times are attached on an empty list too
generateCallStagesNoGuard(s) ==
    LET b == getCallBoundaries(s)
    IN  [k \in 1..Len(stageDefinitions) |->
            LET stage == stageDefinitions[k]
            IN  [startTime |-> StageTime(b.start, b.duration, stage.startPercent),
                 endTime   |-> StageTime(b.start, b.duration, stage.endPercent)]
                @@ stage]

generateCallStages(s) ==
    IF s.isNull \/ Len(s.items) = 0
    THEN stageDefinitions
    ELSE LET b == getCallBoundaries(s)
         IN  [k \in 1..Len(stageDefinitions) |->
                 LET stage == stageDefinitions[k]
                 IN  [startTime |-> StageTime(b.start, b.duration, stage.startPercent),
                      endTime   |-> StageTime(b.start, b.duration, stage.endPercent)]
                     @@ stage]

-----------------------------------------------------------------------------
(* getStageForTime *)

\* CALL_STAGES: the definitions with startTime and endTime 0
CALL_STAGES ==
    [k \in 1..Len(stageDefinitions) |->
        [startTime |-> 0, endTime |-> 0] @@ stageDefinitions[k]]

\* timestamp >= stage.startTime && timestamp < stage.endTime; a stage without
\* times (undefined) satisfies neither comparison
TimeInStage(timestamp, stage) ==
    /\ {"startTime", "endTime"} \subseteq DOMAIN stage
    /\ timestamp >= stage.startTime
    /\ timestamp < stage.endTime

\* the first stage of the list that holds the timestamp, else the last stage
getStageForTime(timestamp, stages) ==
    LET stageList == IF stages.isNull THEN CALL_STAGES ELSE stages.items
        hits      == {k \in 1..Len(stageList) : TimeInStage(timestamp, stageList[k])}
    IN  IF hits # {}
        THEN stageList[CHOOSE k \in hits : \A m \in hits : k <= m]
        ELSE stageList[Len(stageList)]

-----------------------------------------------------------------------------
(* getConfidenceLevel *)

\* variant: a confidence of exactly 0.7 is not medium
getConfidenceLevelAbove(confidence) ==
    IF confidence >= 90 THEN [level |-> "high", label |-> "High", color |-> "#10b981"]
    ELSE IF confidence > 70 THEN [level |-> "medium", label |-> "Medium", color |-> "#f59e0b"]
    ELSE [level |-> "low", label |-> "Low", color |-> "#ef4444"]

\* confidence in hundredths
getConfidenceLevel(confidence) ==
    IF confidence >= 90 THEN [level |-> "high", label |-> "High", color |-> "#10b981"]
    ELSE IF confidence >= 70 THEN [level |-> "medium", label |-> "Medium", color |-> "#f59e0b"]
    ELSE [level |-> "low", label |-> "Low", color |-> "#ef4444"]

-----------------------------------------------------------------------------
(* groupSentencesByStage *)

\* variant: the range is closed at endTime
InStageClosedEnd(x, stage) == x.start >= stage.startTime /\ x.start <= stage.endTime

\* variant: the range is open at startTime
InStageOpenStart(x, stage) == x.start > stage.startTime /\ x.start < stage.endTime

\* the filter predicate of one stage
InStage(x, stage) == x.start >= stage.startTime /\ x.start < stage.endTime

StageSentences(items, stage) == SelectSeq(items, LAMBDA x : InStage(x, stage))

groupSentencesByStage(s) ==
    IF s.isNull \/ Len(s.items) = 0
    THEN <<>>
    ELSE LET stages == generateCallStages(s)
             ids    == {stages[k].id : k \in 1..Len(stages)}
             \* groups[stage.id] = ... : a later stage of the same id overwrites
             last(id) == CHOOSE k \in 1..Len(stages) :
                             /\ stages[k].id = id
                             /\ \A m \in (k + 1)..Len(stages) : stages[m].id # id
         IN  [id \in ids |->
                 [sentences |-> StageSentences(s.items, stages[last(id)])]
                 @@ stages[last(id)]]

-----------------------------------------------------------------------------
(* findCitationMatches *)

\* variant: the citations are tried from the last to the first
RECURSIVE CitationLoopLast(_, _, _, _, _)
CitationLoopLast(textLower, cites, j, idx, seenIndices) ==
    IF j > Len(cites) THEN 0
    ELSE LET later == CitationLoopLast(textLower, cites, j + 1, idx, seenIndices)
         IN  IF later # 0 THEN later
             ELSE IF includes(textLower, toLowerCase(cites[j])) /\ idx \notin seenIndices
                  THEN j
                  ELSE 0

\* variant: || in place of && in the match condition
RECURSIVE CitationLoopOr(_, _, _, _, _)
CitationLoopOr(textLower, cites, j, idx, seenIndices) ==
    IF j > Len(cites) THEN 0
    ELSE IF includes(textLower, toLowerCase(cites[j])) \/ idx \notin seenIndices
         THEN j
         ELSE CitationLoopOr(textLower, cites, j + 1, idx, seenIndices)

\* the inner for-loop over the citations, from position j: the position of the
\* first citation that the text contains while idx is unseen, or 0
RECURSIVE CitationLoop(_, _, _, _, _)
CitationLoop(textLower, cites, j, idx, seenIndices) ==
    IF j > Len(cites) THEN 0
    ELSE IF includes(textLower, toLowerCase(cites[j])) /\ idx \notin seenIndices
         THEN j
         ELSE CitationLoop(textLower, cites, j + 1, idx, seenIndices)

\* sentences.forEach((sentence, idx) => ...), from JS index idx
RECURSIVE ScanSentences(_, _, _, _, _)
ScanSentences(items, cites, idx, matches, seenIndices) ==
    IF idx >= Len(items) THEN matches
    ELSE LET sentence  == items[idx + 1]
             textLower == toLowerCase(sentence.text)
             j         == CitationLoop(textLower, cites, 1, idx, seenIndices)
         IN  IF j = 0
             THEN ScanSentences(items, cites, idx + 1, matches, seenIndices)
             ELSE ScanSentences(items, cites, idx + 1,
                      Append(matches, [sentenceIdx    |-> idx,
                                       sentence       |-> sentence,
                                       matchedPattern |-> cites[j]]),
                      seenIndices \cup {idx})

\* variant: the comparator is b.sentenceIdx - a.sentenceIdx
RECURSIVE InsertMatchDescending(_, _)
InsertMatchDescending(sorted, m) ==
    IF sorted = <<>> THEN <<m>>
    ELSE IF m.sentenceIdx - Head(sorted).sentenceIdx > 0
         THEN <<m>> \o sorted
         ELSE <<Head(sorted)>> \o InsertMatchDescending(Tail(sorted), m)

\* insert m into the sorted list, after every element that does not compare
\* greater (Array.prototype.sort is stable)
RECURSIVE InsertMatch(_, _)
InsertMatch(sorted, m) ==
    IF sorted = <<>> THEN <<m>>
    ELSE IF Head(sorted).sentenceIdx - m.sentenceIdx > 0
         THEN <<m>> \o sorted
         ELSE <<Head(sorted)>> \o InsertMatch(Tail(sorted), m)

\* matches.sort((a, b) => a.sentenceIdx - b.sentenceIdx)
RECURSIVE SortBySentenceIdx(_)
SortBySentenceIdx(matches) ==
    IF matches = <<>> THEN <<>>
    ELSE InsertMatch(SortBySentenceIdx(SubSeq(matches, 1, Len(matches) - 1)),
                     matches[Len(matches)])

findCitationMatches(s, c) ==
    IF c.isNull \/ Len(c.items) = 0 \/ s.isNull
    THEN <<>>
    ELSE SortBySentenceIdx(ScanSentences(s.items, c.items, 0, <<>>, {}))

-----------------------------------------------------------------------------
(* countKeywords *)

\* Object.keys(KEYWORDS)
KeywordKeys == {keywordTable[k].kw : k \in 1..Len(keywordTable)}

\* KEYWORDS[kw]
KeywordEntry(kw) ==
    keywordTable[CHOOSE k \in 1..Len(keywordTable) : keywordTable[k].kw = kw]

\* the first forEach: counts[kw] = { count: 0, mentions: [], ...KEYWORDS[kw] }
InitialCounts ==
    [kw \in KeywordKeys |->
        [category |-> KeywordEntry(kw).category, color |-> KeywordEntry(kw).color]
        @@ [count |-> 0, mentions |-> <<>>]]

\* variant: every occurrence of a keyword in the text is counted and pushed
RECURSIVE CountLoopPerOccurrence(_, _, _)
CountLoopPerOccurrence(items, idx, counts) ==
    IF idx >= Len(items) THEN counts
    ELSE LET s         == items[idx + 1]
             textLower == toLowerCase(s.text)
             mention   == [sentenceIdx |-> idx, time |-> s.start,
                           speaker |-> s.speaker, text |-> s.text]
             occurrences(kw) ==
                 Cardinality({k \in 0..(Len(textLower) - Len(kw)) :
                                 SubSeq(textLower, k + 1, k + Len(kw)) = kw})
         IN  CountLoopPerOccurrence(items, idx + 1,
                 [kw \in DOMAIN counts |->
                     [counts[kw] EXCEPT
                         !.count = @ + occurrences(kw),
                         !.mentions = @ \o [n \in 1..occurrences(kw) |-> mention]]])

\* variant: the mention records the position counted from one
RECURSIVE CountLoopFromOne(_, _, _)
CountLoopFromOne(items, idx, counts) ==
    IF idx >= Len(items) THEN counts
    ELSE LET s         == items[idx + 1]
             textLower == toLowerCase(s.text)
             mention   == [sentenceIdx |-> idx + 1, time |-> s.start,
                           speaker |-> s.speaker, text |-> s.text]
         IN  CountLoopFromOne(items, idx + 1,
                 [kw \in DOMAIN counts |->
                     IF includes(textLower, kw)
                     THEN [counts[kw] EXCEPT !.count = @ + 1,
                                             !.mentions = Append(@, mention)]
                     ELSE counts[kw]])

\* sentences.forEach((s, idx) => ...), from JS index idx: every keyword the
\* lower-cased text includes gets count++ and one pushed mention
RECURSIVE CountLoop(_, _, _)
CountLoop(items, idx, counts) ==
    IF idx >= Len(items) THEN counts
    ELSE LET s         == items[idx + 1]
             textLower == toLowerCase(s.text)
             mention   == [sentenceIdx |-> idx, time |-> s.start,
                           speaker |-> s.speaker, text |-> s.text]
         IN  CountLoop(items, idx + 1,
                 [kw \in DOMAIN counts |->
                     IF includes(textLower, kw)
                     THEN [counts[kw] EXCEPT !.count = @ + 1,
                                             !.mentions = Append(@, mention)]
                     ELSE counts[kw]])

\* how the call completes: sentences.forEach on null/undefined raises a
\* TypeError (the function has no guard), otherwise counts is returned
countKeywords(s) ==
    IF s.isNull
    THEN [outcome |-> "threw", value |-> "TypeError"]
    ELSE [outcome |-> "returned", value |-> CountLoop(s.items, 0, InitialCounts)]

-----------------------------------------------------------------------------
(* calculateStats *)

\* Number.prototype.toFixed(1) of the quotient num / den (den > 0), in tenths:
\* the nearest tenth.  When the exact quotient lies midway between two tenths
\* the rounding error of the double arithmetic decides the direction, so both
\* directions are outcomes (tieUp chooses).  A negative number is formatted as
\* the negation of its absolute value.
ToFixed1(num, den, tieUp) ==
    LET a     == IF num < 0 THEN 0 - num ELSE num
        isTie == (20 * a) % (2 * den) = den
        n     == IF isTie
                 THEN ((10 * a) \div den) + (IF tieUp THEN 1 ELSE 0)
                 ELSE MathRound(10 * a, den)
    IN  IF num < 0 THEN 0 - n ELSE n

\* ((time / totalTalkTime) * 100).toFixed(1)
PercentOf(time, totalTalkTime, tieUp) ==
    IF totalTalkTime = 0
    THEN [text   |-> IF time = 0 THEN "NaN"
                     ELSE IF time > 0 THEN "Infinity" ELSE "-Infinity",
          tenths |-> 0]
    ELSE IF totalTalkTime > 0
         THEN [text |-> "number", tenths |-> ToFixed1(100 * time, totalTalkTime, tieUp)]
         ELSE [text |-> "number",
               tenths |-> ToFixed1(0 - 100 * time, 0 - totalTalkTime, tieUp)]

\* variant: the end times are summed, the start times are not subtracted
RECURSIVE calcDurationOfEnds(_)
calcDurationOfEnds(items) ==
    IF items = <<>> THEN 0
    ELSE calcDurationOfEnds(SubSeq(items, 1, Len(items) - 1)) + items[Len(items)].end

\* items.reduce((sum, s) => sum + (s.end - s.start), 0)
RECURSIVE calcDuration(_)
calcDuration(items) ==
    IF items = <<>> THEN 0
    ELSE calcDuration(SubSeq(items, 1, Len(items) - 1))
         + (items[Len(items)].end - items[Len(items)].start)

\* confidences.reduce((a, b) => a + b, 0)
RECURSIVE SumConfidence(_)
SumConfidence(items) ==
    IF items = <<>> THEN 0
    ELSE SumConfidence(SubSeq(items, 1, Len(items) - 1)) + items[Len(items)].confidence

LowConfidenceThreshold == 70

\* variant: <= in place of <
IsLowConfidenceInclusive(x) == x.confidence <= LowConfidenceThreshold

\* s.confidence < 0.7
IsLowConfidence(x) == x.confidence < LowConfidenceThreshold

\* variant: the percentages are shares of the call duration
StatsRecordOfCallDuration(items, tieA, tieB, tieC) ==
    LET speakerA == SelectSeq(items, LAMBDA x : x.speaker = "A")
        speakerB == SelectSeq(items, LAMBDA x : x.speaker = "B")
        aTime    == calcDuration(speakerA)
        bTime    == calcDuration(speakerB)
        b        == getCallBoundaries(Given(items))
    IN  [isNull            |-> FALSE,
         totalSentences    |-> Len(items),
         speakerASentences |-> Len(speakerA),
         speakerBSentences |-> Len(speakerB),
         speakerATime      |-> aTime,
         speakerBTime      |-> bTime,
         speakerAPercent   |-> PercentOf(aTime, b.duration, tieA),
         speakerBPercent   |-> PercentOf(bTime, b.duration, tieB),
         callDuration      |-> b.duration,
         callStart         |-> b.start,
         callEnd           |-> b.end,
         avgConfidence     |-> ToFixed1(SumConfidence(items), Len(items), tieC),
         lowConfidenceCount |->
             Len(SelectSeq(items, LAMBDA x : IsLowConfidence(x)))]

\* the record calculateStats returns, for one resolution of the toFixed ties
StatsRecord(items, tieA, tieB, tieC) ==
    LET speakerA == SelectSeq(items, LAMBDA x : x.speaker = "A")
        speakerB == SelectSeq(items, LAMBDA x : x.speaker = "B")
        aTime    == calcDuration(speakerA)
        bTime    == calcDuration(speakerB)
        totalTalkTime == aTime + bTime
        b        == getCallBoundaries(Given(items))
    IN  [isNull            |-> FALSE,
         totalSentences    |-> Len(items),
         speakerASentences |-> Len(speakerA),
         speakerBSentences |-> Len(speakerB),
         speakerATime      |-> aTime,
         speakerBTime      |-> bTime,
         speakerAPercent   |-> PercentOf(aTime, totalTalkTime, tieA),
         speakerBPercent   |-> PercentOf(bTime, totalTalkTime, tieB),
         callDuration      |-> b.duration,
         callStart         |-> b.start,
         callEnd           |-> b.end,
         avgConfidence     |-> ToFixed1(SumConfidence(items), Len(items), tieC),
         lowConfidenceCount |->
             Len(SelectSeq(items, LAMBDA x : IsLowConfidence(x)))]

\* the values calculateStats can return: null, or the statistics record
calculateStats(s) ==
    IF s.isNull \/ Len(s.items) = 0
    THEN {[isNull |-> TRUE]}
    ELSE {StatsRecord(s.items, tieA, tieB, tieC) : tieA, tieB, tieC \in BOOLEAN}

-----------------------------------------------------------------------------
(* App: the derived values and the citation handlers *)

\* no citation navigation is active; no callback is scheduled
NoCitations == [isNull |-> TRUE]
NoTimeout == [pending |-> FALSE]

\* stageGroups[stageId]?.sentences || [], for the sentence list of a render
StageSentencesOf(items, stageId) ==
    LET stageGroups == groupSentencesByStage(Given(items))
    IN  IF stageId \in DOMAIN stageGroups THEN stageGroups[stageId].sentences ELSE <<>>

\* callStages.find((s) => s.id === stageId) is found
StageFound(stageId) ==
    \E k \in 1..Len(stageDefinitions) : stageDefinitions[k].id = stageId

\* sentences.findIndex(s => s.start === sentence.start && s.text === sentence.text)
findIndex(items, sentence) ==
    LET found == {i \in 1..Len(items) :
                     items[i].start = sentence.start /\ items[i].text = sentence.text}
    IN  IF found = {} THEN 0 - 1
        ELSE (CHOOSE i \in found : \A j \in found : i <= j) - 1

\* the inner for-loop over the citations, from position j: the position of the
\* first citation that the text contains while the start is unseen, or 0
RECURSIVE StartLoop(_, _, _, _, _)
StartLoop(textLower, cites, j, start, seenIndices) ==
    IF j > Len(cites) THEN 0
    ELSE IF includes(textLower, toLowerCase(cites[j])) /\ start \notin seenIndices
         THEN j
         ELSE StartLoop(textLower, cites, j + 1, start, seenIndices)

\* variant: next and prev without the wrap-around
navigateCitationNoWrap(citation, direction) ==
    [citation EXCEPT !.currentIndex =
        IF direction = "next" THEN citation.currentIndex + 1
        ELSE citation.currentIndex - 1]


\* stageSentences.forEach((sentence) => ...), from place k of the stage list:
\* a match is pushed, and the start marked seen, when a citation is found
\* and the sentence has a global index
RECURSIVE ScanStageSentences(_, _, _, _, _, _)
ScanStageSentences(items, stageSentences, cites, k, matches, seenIndices) ==
    IF k > Len(stageSentences) THEN matches
    ELSE LET sentence  == stageSentences[k]
             textLower == toLowerCase(sentence.text)
             j         == StartLoop(textLower, cites, 1, sentence.start, seenIndices)
             globalIdx == findIndex(items, sentence)
         IN  IF j = 0 \/ globalIdx = 0 - 1
             THEN ScanStageSentences(items, stageSentences, cites, k + 1,
                                     matches, seenIndices)
             ELSE ScanStageSentences(items, stageSentences, cites, k + 1,
                      Append(matches, [sentenceIdx    |-> globalIdx,
                                       sentence       |-> sentence,
                                       matchedPattern |-> cites[j]]),
                      seenIndices \cup {sentence.start})

\* the sorted matches of the citations within the sentences of the stage
StageMatches(items, stageId, cites) ==
    SortBySentenceIdx(
        ScanStageSentences(items, StageSentencesOf(items, stageId), cites, 1, <<>>, {}))

\* what handleCitationClick sets: null when nothing matches
CitationsOfClick(items, stageId, cites, itemText) ==
    LET matches == StageMatches(items, stageId, cites)
    IN  IF Len(matches) = 0 THEN NoCitations
        ELSE [isNull |-> FALSE, matches |-> matches, currentIndex |-> 0,
              itemText |-> itemText]

\* the loop over stage.analysis.strengths, from item n: the first item with
\* citations that has matches in the stage, or null
RECURSIVE FirstStrength(_, _, _, _)
FirstStrength(items, stageId, strengths, n) ==
    IF n > Len(strengths) THEN NoCitations
    ELSE LET selected == CitationsOfClick(items, stageId, strengths[n].citations,
                                          strengths[n].text)
         IN  IF Len(strengths[n].citations) > 0 /\ ~selected.isNull
             THEN selected
             ELSE FirstStrength(items, stageId, strengths, n + 1)

\* the auto-selection of a stage: null when the stage is not found, has no
\* sentence, or no strength has a match
AutoSelection(items, stageId) ==
    IF ~StageFound(stageId) \/ StageSentencesOf(items, stageId) = <<>>
    THEN NoCitations
    ELSE FirstStrength(items, stageId, StageAnalysis(stageId).strengths, 1)

\* the activeCitations navigateCitation sets
navigateCitation(citation, direction) ==
    LET length == Len(citation.matches)
    IN  [citation EXCEPT !.currentIndex =
            IF direction = "next" THEN (citation.currentIndex + 1) % length
            ELSE (citation.currentIndex - 1 + length) % length]

-----------------------------------------------------------------------------
(* Inputs *)

\* sentence texts and citation patterns
HeyLuis == <<"H","e","y"," ","L","u","i","s">>
GotYouAllDone == <<"G","o","t"," ","y","o","u"," ","a","l","l"," ","d","o","n","e">>
HeyCommaLuisUpper == <<"H","E","Y",","," ","L","U","I","S">>

PatHeyCommaLuis == <<"H","e","y",","," ","L","u","i","s">>
PatLuis == <<"l","u","i","s">>
PatDone == <<"D","o","n","e">>

Texts == {HeyLuis, GotYouAllDone, HeyCommaLuisUpper}

\* sentence texts with keyword phrases: two different ones, one repeated
HeatPumpRebate == <<"T","h","e"," ","H","e","a","t"," ","P","u","m","p"," ","h","a","s"," ","a"," ","r","e","b","a","t","e">>
PriceTwice == <<"p","r","i","c","e",","," ","P","R","I","C","E">>
KeywordTexts == {HeatPumpRebate, PriceTwice, GotYouAllDone}
Patterns == {PatHeyCommaLuis, PatLuis, PatDone}

\* timestamps (ms) sentences start and end at
Times == {0, 2, 90, 100}
TimePairs == {p \in Times \X Times : p[1] <= p[2]}

\* the fields a list position gets when the input family does not vary them
SpeakerAt(i) == IF i % 2 = 1 THEN "A" ELSE "B"
ConfidenceAt(i) == IF i % 2 = 1 THEN 95 ELSE 90
TextAt(i) == IF i % 2 = 1 THEN HeyLuis ELSE GotYouAllDone
StartAt(i) == <<0, 1000, 5000, 6000, 7000>>[i]
EndAt(i) == <<1000, 5000, 6000, 7000, 8000>>[i]

\* a sentence list that varies the timestamps (in any order, zero-length
\* sentences allowed): pairs[i] is <<start, end>> of the sentence at position i
TimedList(pairs) ==
    [i \in 1..Len(pairs) |-> [ref |-> i, start |-> pairs[i][1], end |-> pairs[i][2],
                              speaker |-> SpeakerAt(i), text |-> TextAt(i),
                              confidence |-> ConfidenceAt(i)]]

\* a sentence list that varies the texts
TextList(texts) ==
    [i \in 1..Len(texts) |-> [ref |-> i, start |-> StartAt(i), end |-> EndAt(i),
                              speaker |-> SpeakerAt(i), text |-> texts[i],
                              confidence |-> ConfidenceAt(i)]]

\* a sorted, gapless sentence list that varies speakers and durations:
\* spoken[i] is <<speaker, duration>> of the sentence at position i
RECURSIVE SpokenStart(_, _)
SpokenStart(spoken, i) ==
    IF i = 1 THEN 0 ELSE SpokenStart(spoken, i - 1) + spoken[i - 1][2]

SpokenList(spoken) ==
    [i \in 1..Len(spoken) |->
        [ref |-> i, start |-> SpokenStart(spoken, i),
         end |-> SpokenStart(spoken, i) + spoken[i][2],
         speaker |-> spoken[i][1], text |-> TextAt(i), confidence |-> ConfidenceAt(i)]]

\* a sentence list that varies the confidences
ConfidenceList(confs) ==
    [i \in 1..Len(confs) |-> [ref |-> i, start |-> StartAt(i), end |-> EndAt(i),
                              speaker |-> SpeakerAt(i), text |-> TextAt(i),
                              confidence |-> confs[i]]]

Speakers == {"A", "B", "C"}
Durations == {1000, 4000, 15000}
Confidences == {69, 70, 90}

NotCalled == [fn |-> "none", outcome |-> "none", value |-> <<>>]

\* the App component as mounted: the initial useState and useRef values, the
\* fetch of the load effect under way
AppMounted ==
    /\ loading = TRUE
    /\ activeStage = "introduction"
    /\ activeCitations = NoCitations
    /\ initialSelectionDone = FALSE
    /\ timeout = NoTimeout
    /\ fetchPending = TRUE

\* the module is loaded, no function has been called
ModuleLoaded ==
    /\ stageDefinitions = STAGE_DEFINITIONS
    /\ keywordTable = KEYWORDS
    /\ result = NotCalled

\* timestamps vary, one fixed citation list
Init ==
    /\ \/ sentences = Missing
       \/ \E n \in 0..MaxLen : \E pairs \in [1..n -> TimePairs] :
              sentences = Given(TimedList(pairs))
    /\ citations = Given(<<PatLuis>>)
    /\ ModuleLoaded
    /\ AppMounted

\* texts and citation lists vary
InitCite ==
    /\ \/ sentences = Missing
       \/ \E n \in 0..MaxLen : \E texts \in [1..n -> Texts] :
              sentences = Given(TextList(texts))
    /\ \/ citations = Missing
       \/ \E n \in 0..MaxCites : \E pats \in [1..n -> Patterns] :
              citations = Given(pats)
    /\ ModuleLoaded
    /\ AppMounted

\* the call boundaries vary: a first sentence starting at a and a last
\* sentence ending at b, in either order of a and b
InitTimes ==
    /\ \E a \in 0..MaxTime : \E b \in 1..MaxTime :
           sentences = Given(TimedList(<<<<a, a + 1>>, <<b - 1, b>>>>))
    /\ citations = Given(<<PatLuis>>)
    /\ ModuleLoaded
    /\ AppMounted

\* speakers and durations vary, or confidences vary
InitStats ==
    /\ \/ sentences = Missing
       \/ \E n \in 0..MaxLen : \E spoken \in [1..n -> Speakers \X Durations] :
              sentences = Given(SpokenList(spoken))
       \/ \E n \in 1..MaxLen : \E confs \in [1..n -> Confidences] :
              sentences = Given(ConfidenceList(confs))
    /\ citations = Given(<<PatLuis>>)
    /\ ModuleLoaded
    /\ AppMounted

\* texts with keyword phrases vary
InitKeywords ==
    /\ \/ sentences = Missing
       \/ \E n \in 0..MaxLen : \E texts \in [1..n -> KeywordTexts] :
              sentences = Given(TextList(texts))
    /\ citations = Given(<<PatLuis>>)
    /\ ModuleLoaded
    /\ AppMounted

-----------------------------------------------------------------------------
(* Calls of the core functions *)

\* the transcripts the fetch can deliver: up to MaxLen - 1 sentences of one
\* second, in start order, that start in the introduction (at 0 or 1000, with
\* a text its strengths cite) or in the upsell stage (at 50000), and a last
\* sentence that ends the call at 100000
TranscriptSentences ==
    ({0, 1000} \X {HeyCommaLuisUpper, GotYouAllDone}) \cup ({50000} \X {HeatPumpRebate})

Transcript(spoken) ==
    [i \in 1..(Len(spoken) + 1) |->
        IF i <= Len(spoken)
        THEN [ref |-> i, start |-> spoken[i][1], end |-> spoken[i][1] + 1000,
              speaker |-> SpeakerAt(i), text |-> spoken[i][2],
              confidence |-> ConfidenceAt(i)]
        ELSE [ref |-> i, start |-> 99000, end |-> 100000,
              speaker |-> SpeakerAt(i), text |-> PriceTwice,
              confidence |-> ConfidenceAt(i)]]

Transcripts ==
    {<<>>} \cup
    {Transcript(spoken) :
        spoken \in {sp \in UNION {[1..n -> TranscriptSentences] :
                                       n \in 0..(MaxLen - 1)} :
                        \A i \in 1..(Len(sp) - 1) : sp[i][1] <= sp[i + 1][1]}}

\* the App as mounted, before the fetch settles
InitApp ==
    /\ sentences = Given(<<>>)
    /\ citations = Missing
    /\ ModuleLoaded
    /\ AppMounted

Returned(fn, value) == [fn |-> fn, outcome |-> "returned", value |-> value]

CallGetCallBoundaries ==
    /\ result' = Returned("getCallBoundaries", getCallBoundaries(sentences))
    /\ UNCHANGED <<sentences, citations, stageDefinitions, keywordTable>>
    /\ UNCHANGED appVars

CallCalculateStats ==
    /\ \E v \in calculateStats(sentences) : result' = Returned("calculateStats", v)
    /\ UNCHANGED <<sentences, citations, stageDefinitions, keywordTable>>
    /\ UNCHANGED appVars

CallCountKeywords ==
    /\ result' = [fn |-> "countKeywords"] @@ countKeywords(sentences)
    /\ UNCHANGED <<sentences, citations, stageDefinitions, keywordTable>>
    /\ UNCHANGED appVars

\* variant: startTime and endTime are written into the definitions, which
\* are then returned
CallGenerateCallStagesInPlace ==
    /\ stageDefinitions' = generateCallStages(sentences)
    /\ result' = Returned("generateCallStages", stageDefinitions')
    /\ UNCHANGED <<sentences, citations, keywordTable>>
    /\ UNCHANGED appVars

CallGenerateCallStages ==
    /\ result' = Returned("generateCallStages", generateCallStages(sentences))
    /\ UNCHANGED <<sentences, citations, stageDefinitions, keywordTable>>
    /\ UNCHANGED appVars

CallGroupSentencesByStage ==
    /\ result' = Returned("groupSentencesByStage", groupSentencesByStage(sentences))
    /\ UNCHANGED <<sentences, citations, stageDefinitions, keywordTable>>
    /\ UNCHANGED appVars

CallFindCitationMatches ==
    /\ result' = Returned("findCitationMatches", findCitationMatches(sentences, citations))
    /\ UNCHANGED <<sentences, citations, stageDefinitions, keywordTable>>
    /\ UNCHANGED appVars

\* getStageForTime(s.start, generateCallStages(sentences)) for a sentence s
CallGetStageForTime ==
    /\ ~sentences.isNull
    /\ LET stages == Given(generateCallStages(sentences))
       IN  \E timestamp \in {sentences.items[i].start : i \in 1..Len(sentences.items)} :
               result' = [timestamp |-> timestamp]
                         @@ Returned("getStageForTime", getStageForTime(timestamp, stages))
    /\ UNCHANGED <<sentences, citations, stageDefinitions, keywordTable>>
    /\ UNCHANGED appVars

\* getConfidenceLevel(s.confidence) for a sentence s
CallGetConfidenceLevel ==
    /\ ~sentences.isNull
    /\ \E confidence \in {sentences.items[i].confidence : i \in 1..Len(sentences.items)} :
           result' = [confidence |-> confidence]
                     @@ Returned("getConfidenceLevel", getConfidenceLevel(confidence))
    /\ UNCHANGED <<sentences, citations, stageDefinitions, keywordTable>>
    /\ UNCHANGED appVars

Next ==
    \/ CallGetCallBoundaries
    \/ CallCalculateStats
    \/ CallCountKeywords
    \/ CallGenerateCallStages
    \/ CallGroupSentencesByStage
    \/ CallFindCitationMatches
    \/ CallGetStageForTime
    \/ CallGetConfidenceLevel

Spec == Init /\ [][Next]_vars

\* the handler or callback that ran last, with its arguments and the values of
\* the render it closed over
Handled(fn, value) == [fn |-> fn, outcome |-> "returned", value |-> value]

\* variant: the failure branch does not clear the loading flag
FetchRejectedKeepsLoading ==
    /\ fetchPending
    /\ fetchPending' = FALSE
    /\ result' = Handled("fetch", [settled |-> "rejected"])
    /\ UNCHANGED <<sentences, citations, stageDefinitions, keywordTable,
                   loading, activeStage, activeCitations, initialSelectionDone, timeout>>

\* the fetch resolves with a transcript: setSentences, setLoading(false), and
\* the auto-select effect of the render that follows, which schedules the
\* callback with the values of that render
FetchResolved ==
    /\ fetchPending
    /\ \E data \in Transcripts :
           /\ sentences' = Given(data)
           /\ IF Len(data) > 0 /\ ~initialSelectionDone
              THEN /\ initialSelectionDone' = TRUE
                   /\ timeout' = [pending |-> TRUE, activeStage |-> activeStage,
                                  sentences |-> data]
              ELSE UNCHANGED <<initialSelectionDone, timeout>>
    /\ loading' = FALSE
    /\ fetchPending' = FALSE
    /\ result' = Handled("fetch", [settled |-> "resolved"])
    /\ UNCHANGED <<citations, stageDefinitions, keywordTable,
                   activeStage, activeCitations>>

\* the fetch, or the parsing of its response, fails: setLoading(false)
FetchRejected ==
    /\ fetchPending
    /\ loading' = FALSE
    /\ fetchPending' = FALSE
    /\ result' = Handled("fetch", [settled |-> "rejected"])
    /\ UNCHANGED <<sentences, citations, stageDefinitions, keywordTable,
                   activeStage, activeCitations, initialSelectionDone, timeout>>

\* the setTimeout callback runs, with the stage and the sentences of the
\* render that scheduled it; it sets activeCitations only when it has matches
AutoSelectTimeout ==
    /\ timeout.pending
    /\ timeout' = NoTimeout
    /\ LET selected == AutoSelection(timeout.sentences, timeout.activeStage)
       IN  activeCitations' = IF selected.isNull THEN activeCitations ELSE selected
    /\ result' = Handled("setTimeout", [activeStage |-> timeout.activeStage])
    /\ UNCHANGED <<sentences, citations, stageDefinitions, keywordTable,
                   loading, activeStage, initialSelectionDone, fetchPending>>

\* a click on a stage button or timeline segment
HandleStageChange(stageId) ==
    /\ ~loading
    /\ activeStage' = stageId
    /\ activeCitations' = AutoSelection(sentences.items, stageId)
    /\ result' = Handled("handleStageChange", [stageId |-> stageId])
    /\ UNCHANGED <<sentences, citations, stageDefinitions, keywordTable,
                   loading, initialSelectionDone, timeout, fetchPending>>

\* the items of the active stage that are rendered with a citation button
ItemsWithButton ==
    IF ~StageFound(activeStage) THEN {}
    ELSE LET analysis == StageAnalysis(activeStage)
             all      == analysis.strengths \o analysis.gaps
         IN  {all[n] : n \in {m \in 1..Len(all) : Len(all[m].citations) > 0}}

\* variant: when nothing matches the active citations are left as they are
HandleCitationClickKeepsOld(item) ==
    /\ ~loading
    /\ LET selected == CitationsOfClick(sentences.items, activeStage,
                                        item.citations, item.text)
       IN  activeCitations' = IF selected.isNull THEN activeCitations ELSE selected
    /\ result' = Handled("handleCitationClick",
                         [item |-> item, activeStage |-> activeStage])
    /\ UNCHANGED <<sentences, citations, stageDefinitions, keywordTable,
                   loading, activeStage, initialSelectionDone, timeout, fetchPending>>

\* a click on the citation button of an item
HandleCitationClick(item) ==
    /\ ~loading
    /\ activeCitations' = CitationsOfClick(sentences.items, activeStage,
                                           item.citations, item.text)
    /\ result' = Handled("handleCitationClick",
                         [item |-> item, activeStage |-> activeStage])
    /\ UNCHANGED <<sentences, citations, stageDefinitions, keywordTable,
                   loading, activeStage, initialSelectionDone, timeout, fetchPending>>

\* a click on the previous or next button of the citation indicator
NavigateCitation(direction) ==
    /\ ~loading
    /\ ~activeCitations.isNull
    /\ activeCitations' = navigateCitation(activeCitations, direction)
    /\ result' = Handled("navigateCitation",
                         [direction |-> direction,
                          currentIndex |-> activeCitations.currentIndex])
    /\ UNCHANGED <<sentences, citations, stageDefinitions, keywordTable,
                   loading, activeStage, initialSelectionDone, timeout, fetchPending>>

\* a click on the close button of the citation indicator
CloseCitations ==
    /\ ~loading
    /\ ~activeCitations.isNull
    /\ activeCitations' = NoCitations
    /\ result' = Handled("closeCitations", [closed |-> TRUE])
    /\ UNCHANGED <<sentences, citations, stageDefinitions, keywordTable,
                   loading, activeStage, initialSelectionDone, timeout, fetchPending>>

NextApp ==
    \/ FetchResolved
    \/ FetchRejected
    \/ AutoSelectTimeout
    \/ \E k \in 1..Len(stageDefinitions) : HandleStageChange(stageDefinitions[k].id)
    \/ \E item \in ItemsWithButton : HandleCitationClick(item)
    \/ \E direction \in {"prev", "next"} : NavigateCitation(direction)
    \/ CloseCitations

SpecApp == InitApp /\ [][NextApp]_vars

\* the promise of the fetch settles
SpecAppFair == SpecApp /\ WF_vars(FetchResolved \/ FetchRejected)

SpecCite == InitCite /\ [][Next]_vars

SpecTimes == InitTimes /\ [][Next]_vars

SpecStats == InitStats /\ [][Next]_vars

SpecKeywords == InitKeywords /\ [][Next]_vars

-----------------------------------------------------------------------------
(* Vocabulary of the properties *)

Called(fn) == result.fn = fn

SentenceList == IF sentences.isNull THEN <<>> ELSE sentences.items
PatternList == IF citations.isNull THEN <<>> ELSE citations.items

SortedByStart(items) ==
    \A i, j \in 1..Len(items) : i < j => items[i].start <= items[j].start

PositiveLength(items) == \A i \in 1..Len(items) : items[i].end > items[i].start

StageIds == {STAGE_DEFINITIONS[k].id : k \in 1..Len(STAGE_DEFINITIONS)}

\* the <<stage id, position>> places of a grouping that hold the sentence object i
PlacesOf(groups, i) ==
    {pl \in UNION {{<<id, k>> : k \in 1..Len(groups[id].sentences)} : id \in DOMAIN groups} :
        groups[pl[1]].sentences[pl[2]].ref = i}

\* two characters are the same letter up to case
SameLetter(a, b) ==
    \/ a = b
    \/ \E k \in 1..Len(UpperCase) : {a, b} = {UpperCase[k], LowerCase[k]}

\* pat occurs in text as a contiguous substring, letter case ignored
ContainsIgnoreCase(text, pat) ==
    \E k \in 0..(Len(text) - Len(pat)) :
        \A n \in 1..Len(pat) : SameLetter(text[k + n], pat[n])

\* the sentence at position i contains at least one of the patterns
ContainsSomePattern(i) ==
    \E j \in 1..Len(PatternList) : ContainsIgnoreCase(SentenceList[i].text, PatternList[j])

-----------------------------------------------------------------------------
(* C1 - Stage Partitioner, sorted input with end > start on every sentence:  *)
(* every input sentence sits at exactly one place of exactly one stage       *)
(* group, and every element of a group is a sentence of the input; so no     *)
(* sentence is in two groups and the groups together are the input, each     *)
(* sentence once.                                                            *)
C1_EachSentenceInExactlyOneStage ==
    (/\ Called("groupSentencesByStage")
     /\ SortedByStart(SentenceList)
     /\ PositiveLength(SentenceList))
    => /\ \A i \in 1..Len(SentenceList) : Cardinality(PlacesOf(result.value, i)) = 1
       /\ \A id \in DOMAIN result.value :
              \A k \in 1..Len(result.value[id].sentences) :
                  LET x == result.value[id].sentences[k]
                  IN  x.ref \in 1..Len(SentenceList) /\ x = SentenceList[x.ref]

\* three sorted sentences of positive length, grouped into three different stages
C1_Witness ==
    /\ Called("groupSentencesByStage")
    /\ Len(SentenceList) = 3
    /\ SortedByStart(SentenceList)
    /\ PositiveLength(SentenceList)
    /\ Cardinality({id \in DOMAIN result.value : result.value[id].sentences # <<>>}) = 3

(* C2 - the final stage absorbs a sentence that starts exactly at the call   *)
(* end: a sentence whose start equals the last stage's endTime is in the     *)
(* last stage's sentence list.                                               *)
C2_FinalStageAbsorbsSentenceAtEnd ==
    (Called("groupSentencesByStage") /\ SentenceList # <<>>)
    => LET lastStage == result.value[STAGE_DEFINITIONS[Len(STAGE_DEFINITIONS)].id]
       IN  \A i \in 1..Len(SentenceList) :
               SentenceList[i].start = lastStage.endTime
               => \E k \in 1..Len(lastStage.sentences) : lastStage.sentences[k].ref = i

(* C3 - for a non-empty list the grouping has one entry per stage            *)
(* definition id, and the sentences of an entry are exactly the input        *)
(* sentences with startTime <= start < endTime of that entry, in input       *)
(* order; a stage that contains no sentence start has an entry with an       *)
(* empty list.                                                               *)
C3_GroupIsHalfOpenRangeInInputOrder ==
    (Called("groupSentencesByStage") /\ SentenceList # <<>>)
    => /\ DOMAIN result.value = StageIds
       /\ \A id \in DOMAIN result.value :
              LET entry == result.value[id]
                  g     == entry.sentences
              IN  /\ entry.id = id
                  /\ \A k \in 1..Len(g) :
                         g[k].ref \in 1..Len(SentenceList) /\ g[k] = SentenceList[g[k].ref]
                  /\ \A k, m \in 1..Len(g) : k < m => g[k].ref < g[m].ref
                  /\ \A i \in 1..Len(SentenceList) :
                         (\E k \in 1..Len(g) : g[k].ref = i)
                         <=> (/\ entry.startTime <= SentenceList[i].start
                              /\ SentenceList[i].start < entry.endTime)

\* a stage holding two sentences, one of them starting exactly at the stage's
\* startTime, beside a stage with an empty list
C3_Witness ==
    /\ Called("groupSentencesByStage")
    /\ SentenceList # <<>>
    /\ \E id \in DOMAIN result.value :
           /\ Len(result.value[id].sentences) = 2
           /\ \E k \in 1..2 : result.value[id].sentences[k].start = result.value[id].startTime
    /\ \E id \in DOMAIN result.value : result.value[id].sentences = <<>>

(* C4 - Citation Matcher: no two matches share a sentenceIdx, and a match's  *)
(* matchedPattern is the first pattern of the citation list that the         *)
(* sentence text contains, letter case ignored.                              *)
C4_OneMatchPerSentenceFirstPatternWins ==
    Called("findCitationMatches")
    => /\ \A m, n \in 1..Len(result.value) :
              m # n => result.value[m].sentenceIdx # result.value[n].sentenceIdx
       /\ \A m \in 1..Len(result.value) :
              LET i == result.value[m].sentenceIdx + 1
              IN  \E j \in 1..Len(PatternList) :
                      /\ result.value[m].matchedPattern = PatternList[j]
                      /\ ContainsIgnoreCase(SentenceList[i].text, PatternList[j])
                      /\ \A h \in 1..(j - 1) :
                             ~ContainsIgnoreCase(SentenceList[i].text, PatternList[h])

\* a sentence that contains both patterns of the list, which differ
C4_Witness ==
    /\ Called("findCitationMatches")
    /\ Len(PatternList) = 2
    /\ PatternList[1] # PatternList[2]
    /\ \E m \in 1..Len(result.value) :
           LET text == SentenceList[result.value[m].sentenceIdx + 1].text
           IN  /\ ContainsIgnoreCase(text, PatternList[1])
               /\ ContainsIgnoreCase(text, PatternList[2])

(* C5 - the sentence at position i of the list passed in has a match if and  *)
(* only if its text contains one of the patterns, letter case ignored; the   *)
(* match carries that position as sentenceIdx and that sentence object.      *)
C5_MatchedIffContainsSomePattern ==
    Called("findCitationMatches")
    => /\ \A i \in 1..Len(SentenceList) :
              (\E m \in 1..Len(result.value) : result.value[m].sentenceIdx = i - 1)
              <=> ContainsSomePattern(i)
       /\ \A m \in 1..Len(result.value) :
              /\ result.value[m].sentenceIdx + 1 \in 1..Len(SentenceList)
              /\ result.value[m].sentence = SentenceList[result.value[m].sentenceIdx + 1]

\* a list with a sentence that matches only through case folding and a
\* sentence that matches nothing
C5_Witness ==
    /\ Called("findCitationMatches")
    /\ \E i \in 1..Len(SentenceList) :
           /\ ContainsSomePattern(i)
           /\ \A j \in 1..Len(PatternList) : ~includes(SentenceList[i].text, PatternList[j])
    /\ \E i \in 1..Len(SentenceList) : ~ContainsSomePattern(i)
    /\ Len(result.value) >= 1

(* C6 - the list findCitationMatches returns is in strictly ascending        *)
(* sentenceIdx order.                                                        *)
C6_MatchesStrictlyAscending ==
    Called("findCitationMatches")
    => \A m, n \in 1..Len(result.value) :
           m < n => result.value[m].sentenceIdx < result.value[n].sentenceIdx

\* three matches, found through different patterns
C6_Witness ==
    /\ Called("findCitationMatches")
    /\ Len(result.value) = 3
    /\ result.value[1].matchedPattern # result.value[2].matchedPattern

(* C7 - scenario 4 as the specification states it: pattern list              *)
(* ['Hey, Luis'] against the sentences 'Hey Luis' and 'Got you all done'     *)
(* gives exactly one match, sentenceIdx 0, matchedPattern 'Hey, Luis'.       *)
Scenario4 ==
    /\ Called("findCitationMatches")
    /\ sentences = Given(TextList(<<HeyLuis, GotYouAllDone>>))
    /\ citations = Given(<<PatHeyCommaLuis>>)

C7_Scenario4OneMatch ==
    Scenario4
    => /\ Len(result.value) = 1
       /\ result.value[1].sentenceIdx = 0
       /\ result.value[1].matchedPattern = PatHeyCommaLuis

(* C7 as amended - the same call returns no match, the text 'Hey Luis'       *)
(* having no comma; with the first sentence text 'HEY, LUIS' instead, it     *)
(* gives exactly one match, sentenceIdx 0, matchedPattern 'Hey, Luis'.       *)
Scenario4WithComma ==
    /\ Called("findCitationMatches")
    /\ sentences = Given(TextList(<<HeyCommaLuisUpper, GotYouAllDone>>))
    /\ citations = Given(<<PatHeyCommaLuis>>)

C7_Scenario4NoMatchWithoutComma ==
    /\ Scenario4 => result.value = <<>>
    /\ Scenario4WithComma
       => /\ Len(result.value) = 1
          /\ result.value[1].sentenceIdx = 0
          /\ result.value[1].matchedPattern = PatHeyCommaLuis

C7_Witness == Scenario4

(* C8 - findCitationMatches returns (does not raise) the empty list when     *)
(* the pattern list is empty or missing, when the sentence list is empty or  *)
(* missing, and when no sentence contains any pattern.                       *)
C8_EmptyResultOnEmptyInputsOrNoMatch ==
    (/\ Called("findCitationMatches")
     /\ \/ citations.isNull
        \/ PatternList = <<>>
        \/ sentences.isNull
        \/ SentenceList = <<>>
        \/ \A i \in 1..Len(SentenceList) : ~ContainsSomePattern(i))
    => result.outcome = "returned" /\ result.value = <<>>

\* sentences and patterns are there, and no sentence contains a pattern
C8_Witness ==
    /\ Called("findCitationMatches")
    /\ Len(SentenceList) >= 2
    /\ Len(PatternList) >= 1
    /\ \A i \in 1..Len(SentenceList) : ~ContainsSomePattern(i)

(* C9 - Boundary Calculator on a non-empty list, sorted or not: start is     *)
(* the first sentence's start, end the last sentence's end, duration their   *)
(* difference; the sentences in between have no influence.                   *)
C9_BoundariesFromFirstAndLast ==
    (Called("getCallBoundaries") /\ SentenceList # <<>>)
    => /\ result.value.start = SentenceList[1].start
       /\ result.value.end = SentenceList[Len(SentenceList)].end
       /\ result.value.duration = result.value.end - result.value.start

\* an unsorted list whose middle sentence starts before the first one and
\* ends after the last one
C9_Witness ==
    /\ Called("getCallBoundaries")
    /\ Len(SentenceList) = 3
    /\ SentenceList[2].start < SentenceList[1].start
    /\ SentenceList[2].end > SentenceList[3].end

(* C10 - on the empty sentence list: getCallBoundaries returns               *)
(* {start: 0, end: 0, duration: 0}, calculateStats returns null,             *)
(* generateCallStages returns the stage definitions with no startTime or     *)
(* endTime attached, groupSentencesByStage returns the empty mapping.        *)
EmptyList == ~sentences.isNull /\ sentences.items = <<>>

C10_SentinelsOnEmptyList ==
    EmptyList
    => /\ Called("getCallBoundaries")
          => result.value = [start |-> 0, end |-> 0, duration |-> 0]
       /\ Called("calculateStats") => result.value.isNull
       /\ Called("generateCallStages")
          => /\ Len(result.value) = Len(STAGE_DEFINITIONS)
             /\ \A k \in 1..Len(result.value) :
                    /\ DOMAIN result.value[k] = DOMAIN STAGE_DEFINITIONS[k]
                    /\ result.value[k] = STAGE_DEFINITIONS[k]
       /\ Called("groupSentencesByStage") => DOMAIN result.value = {}

C10_Witness == EmptyList /\ Called("generateCallStages")

(* C11 - no core function raises on a missing or empty sentence sequence:   *)
(* every call with such an argument returns.                                 *)
C11_NoCoreFunctionRaisesOnMissingOrEmpty ==
    (result.fn # "none" /\ (sentences.isNull \/ SentenceList = <<>>))
    => result.outcome = "returned"

(* C12 - for a non-empty list every generated stage has startTime and        *)
(* endTime equal to start + duration * percent / 100 rounded to the nearest  *)
(* integer (a tie going up), start and duration being the call boundaries;   *)
(* boundaries {0, 5000, 5000} with the percents 0, 50 and 100 give 0, 2500   *)
(* and 5000.                                                                 *)

\* n is the integer nearest to num / den (den > 0), the upper one on a tie
IsNearestInteger(n, num, den) == den * (2 * n - 1) <= 2 * num /\ 2 * num < den * (2 * n + 1)

\* start + duration * percent / 100 as a quotient over 1000, percent in tenths
StageTimeNumerator(percent) ==
    LET start    == SentenceList[1].start
        duration == SentenceList[Len(SentenceList)].end - start
    IN  1000 * start + duration * percent

C12_StageTimesAreRoundedPercentages ==
    /\ (Called("generateCallStages") /\ SentenceList # <<>>)
       => /\ Len(result.value) = Len(STAGE_DEFINITIONS)
          /\ \A k \in 1..Len(result.value) :
                 /\ IsNearestInteger(result.value[k].startTime,
                        StageTimeNumerator(STAGE_DEFINITIONS[k].startPercent), 1000)
                 /\ IsNearestInteger(result.value[k].endTime,
                        StageTimeNumerator(STAGE_DEFINITIONS[k].endPercent), 1000)
    /\ StageTime(0, 5000, 0) = 0
    /\ StageTime(0, 5000, 500) = 2500
    /\ StageTime(0, 5000, 1000) = 5000

\* one stage time is an exact tie, one is rounded down and one is rounded up
C12_Witness ==
    /\ Called("generateCallStages")
    /\ SentenceList # <<>>
    /\ \E k \in 1..Len(result.value) :
           2 * StageTimeNumerator(STAGE_DEFINITIONS[k].endPercent)
               = 1000 * (2 * result.value[k].endTime - 1)
    /\ \E k \in 1..Len(result.value) :
           1000 * result.value[k].endTime
               < StageTimeNumerator(STAGE_DEFINITIONS[k].endPercent)
    /\ \E k \in 1..Len(result.value) :
           /\ 1000 * result.value[k].endTime
                  > StageTimeNumerator(STAGE_DEFINITIONS[k].endPercent)
           /\ 2 * StageTimeNumerator(STAGE_DEFINITIONS[k].endPercent)
                  # 1000 * (2 * result.value[k].endTime - 1)

(* C13 - in the stage definition list, of every copy of the data module,     *)
(* each startPercent equals the previous endPercent, the first startPercent  *)
(* is 0, the last endPercent is 100 and the ids are unique.                  *)
ContiguousStageDefinitions(defs) ==
    /\ Len(defs) >= 1
    /\ defs[1].startPercent = 0
    /\ defs[Len(defs)].endPercent = 1000
    /\ \A k \in 2..Len(defs) : defs[k].startPercent = defs[k - 1].endPercent
    /\ \A k, m \in 1..Len(defs) : k # m => defs[k].id # defs[m].id

C13_StageDefinitionsAreContiguous ==
    /\ ContiguousStageDefinitions(stageDefinitions)
    /\ ContiguousStageDefinitions(STAGE_DEFINITIONS_part_000)
    /\ ContiguousStageDefinitions(STAGE_DEFINITIONS_part_002)
    /\ ContiguousStageDefinitions(STAGE_DEFINITIONS_part_003)

\* the definitions have been read by a call that returned them as they are
C13_Witness ==
    /\ Called("generateCallStages")
    /\ SentenceList = <<>>
    /\ result.value = stageDefinitions

(* C14 - calculateStats sums end - start over the sentences of speaker A     *)
(* into speakerATime and over those of speaker B into speakerBTime, reports  *)
(* each percentage as that time over speakerATime + speakerBTime (not over   *)
(* the call duration) to one decimal, totalSentences as the list length and  *)
(* callStart, callEnd, callDuration as the call boundaries; A talking 1000   *)
(* and B 4000 gives "20.0" and "80.0".                                       *)

\* the places of the list at which the speaker talks
PlacesOfSpeaker(speaker) == {i \in 1..Len(SentenceList) : SentenceList[i].speaker = speaker}

RECURSIVE TalkTimeAt(_)
TalkTimeAt(places) ==
    IF places = {} THEN 0
    ELSE LET i == CHOOSE j \in places : TRUE
         IN  (SentenceList[i].end - SentenceList[i].start) + TalkTimeAt(places \ {i})

\* tenths is num / den to one decimal (den > 0): no tenth is nearer
IsNearestTenth(tenths, num, den) ==
    LET diff == tenths * den - 10 * num
    IN  2 * (IF diff < 0 THEN 0 - diff ELSE diff) <= den

AThenB == SpokenList(<< <<"A", 1000>>, <<"B", 4000>> >>)

C14_TalkTimeSharesOfBothSpeakers ==
    (Called("calculateStats") /\ SentenceList # <<>>)
    => LET stats == result.value
           aTime == TalkTimeAt(PlacesOfSpeaker("A"))
           bTime == TalkTimeAt(PlacesOfSpeaker("B"))
       IN  /\ ~stats.isNull
           /\ stats.speakerATime = aTime
           /\ stats.speakerBTime = bTime
           /\ aTime + bTime > 0
              => /\ stats.speakerAPercent.text = "number"
                 /\ stats.speakerBPercent.text = "number"
                 /\ IsNearestTenth(stats.speakerAPercent.tenths, 100 * aTime, aTime + bTime)
                 /\ IsNearestTenth(stats.speakerBPercent.tenths, 100 * bTime, aTime + bTime)
           /\ stats.totalSentences = Len(SentenceList)
           /\ stats.callStart = SentenceList[1].start
           /\ stats.callEnd = SentenceList[Len(SentenceList)].end
           /\ stats.callDuration = stats.callEnd - stats.callStart
           /\ SentenceList = AThenB
              => /\ stats.speakerAPercent.tenths = 200
                 /\ stats.speakerBPercent.tenths = 800

\* a third speaker talks too, so the call lasts longer than A and B talk
C14_Witness ==
    /\ Called("calculateStats")
    /\ PlacesOfSpeaker("A") # {}
    /\ PlacesOfSpeaker("B") # {}
    /\ PlacesOfSpeaker("C") # {}
    /\ result.value.callDuration > result.value.speakerATime + result.value.speakerBTime
    /\ result.value.speakerAPercent.tenths + result.value.speakerBPercent.tenths = 1000

(* C15 - whenever both speakers have nonzero talk time, speakerAPercent and  *)
(* speakerBPercent sum to 100.0 within 0.1.                                  *)
C15_PercentsSumToHundred ==
    (/\ Called("calculateStats")
     /\ SentenceList # <<>>
     /\ result.value.speakerATime # 0
     /\ result.value.speakerBTime # 0)
    => LET sum == result.value.speakerAPercent.tenths + result.value.speakerBPercent.tenths
       IN  /\ result.value.speakerAPercent.text = "number"
           /\ result.value.speakerBPercent.text = "number"
           /\ 999 <= sum /\ sum <= 1001

\* both shares are rounded the same way: the sum is 100.1 (6.3 and 93.8)
C15_Witness ==
    /\ Called("calculateStats")
    /\ SentenceList # <<>>
    /\ result.value.speakerATime = 1000
    /\ result.value.speakerBTime = 15000
    /\ result.value.speakerAPercent.tenths = 63
    /\ result.value.speakerBPercent.tenths = 938

(* C16 - lowConfidenceCount is the number of sentences whose confidence is   *)
(* strictly below 0.7; a sentence with confidence exactly 0.7 is not counted.*)
C16_LowConfidenceStrictlyBelow ==
    (Called("calculateStats") /\ SentenceList # <<>>)
    => result.value.lowConfidenceCount
           = Cardinality({i \in 1..Len(SentenceList) : SentenceList[i].confidence < 70})

\* one sentence at exactly 0.7 is not counted, one at 0.69 is
C16_Witness ==
    /\ Called("calculateStats")
    /\ \E i \in 1..Len(SentenceList) : SentenceList[i].confidence = 70
    /\ \E i \in 1..Len(SentenceList) : SentenceList[i].confidence = 69
    /\ result.value.lowConfidenceCount = 1

(* C17 - in countKeywords a sentence whose text contains two different       *)
(* keyword phrases, letter case ignored, adds one mention to each of the     *)
(* two, and a sentence that contains a phrase several times adds exactly one *)
(* mention and one to the count of that keyword.                             *)
Vocabulary == {KEYWORDS[k].kw : k \in 1..Len(KEYWORDS)}

\* the places of the list whose text contains the keyword
PlacesContaining(kw) ==
    {i \in 1..Len(SentenceList) : ContainsIgnoreCase(SentenceList[i].text, kw)}

\* the mentions of the keyword that record the sentence at place i
MentionsOfPlace(kw, i) ==
    {m \in 1..Len(result.value[kw].mentions) :
        result.value[kw].mentions[m].sentenceIdx = i - 1}

\* the number of places at which the keyword starts in the text
Occurrences(text, kw) ==
    Cardinality({k \in 0..(Len(text) - Len(kw)) :
                    \A n \in 1..Len(kw) : SameLetter(text[k + n], kw[n])})

C17_OneMentionPerSentenceAndKeyword ==
    (Called("countKeywords") /\ result.outcome = "returned")
    => /\ \A i \in 1..Len(SentenceList) : \A kw1, kw2 \in Vocabulary :
              (/\ kw1 # kw2
               /\ ContainsIgnoreCase(SentenceList[i].text, kw1)
               /\ ContainsIgnoreCase(SentenceList[i].text, kw2))
              => /\ Cardinality(MentionsOfPlace(kw1, i)) = 1
                 /\ Cardinality(MentionsOfPlace(kw2, i)) = 1
       /\ \A i \in 1..Len(SentenceList) : \A kw \in Vocabulary :
              Occurrences(SentenceList[i].text, kw) >= 1
              => Cardinality(MentionsOfPlace(kw, i)) = 1
       /\ \A kw \in Vocabulary :
              result.value[kw].count = Cardinality(PlacesContaining(kw))

\* one sentence has two keywords, another has one keyword twice
C17_Witness ==
    /\ Called("countKeywords")
    /\ result.outcome = "returned"
    /\ \E i \in 1..Len(SentenceList) : \E kw1, kw2 \in Vocabulary :
           /\ kw1 # kw2
           /\ MentionsOfPlace(kw1, i) # {}
           /\ MentionsOfPlace(kw2, i) # {}
    /\ \E i \in 1..Len(SentenceList) : \E kw \in Vocabulary :
           /\ Occurrences(SentenceList[i].text, kw) = 2
           /\ result.value[kw].count = 1

(* C18 - the result of countKeywords has an entry for every keyword of the   *)
(* vocabulary, whose count equals the length of its mentions; each mention   *)
(* records the sentence's index in the input list, its start time, its       *)
(* speaker and its text, and the mentions are in ascending sentence-index    *)
(* order with no index repeated.                                             *)
C18_EntryPerKeywordWithOrderedMentions ==
    (Called("countKeywords") /\ result.outcome = "returned")
    => /\ DOMAIN result.value = Vocabulary
       /\ \A kw \in Vocabulary :
              LET entry == result.value[kw]
              IN  /\ entry.count = Len(entry.mentions)
                  /\ \A m \in 1..Len(entry.mentions) :
                         LET mention == entry.mentions[m]
                             i       == mention.sentenceIdx + 1
                         IN  /\ DOMAIN mention = {"sentenceIdx", "time", "speaker", "text"}
                             /\ i \in 1..Len(SentenceList)
                             /\ mention.time = SentenceList[i].start
                             /\ mention.speaker = SentenceList[i].speaker
                             /\ mention.text = SentenceList[i].text
                  /\ \A m, n \in 1..Len(entry.mentions) :
                         m < n => entry.mentions[m].sentenceIdx < entry.mentions[n].sentenceIdx

\* one keyword has several mentions while another has none
C18_Witness ==
    /\ Called("countKeywords")
    /\ result.outcome = "returned"
    /\ \E kw \in Vocabulary : result.value[kw].count >= 2
    /\ \E kw \in Vocabulary : result.value[kw].count = 0 /\ result.value[kw].mentions = <<>>

(* C20 - no core function modifies its inputs or the static configuration:   *)
(* every call leaves the sentence list, the citation list, STAGE_DEFINITIONS *)
(* and KEYWORDS as they were, and generateCallStages on a non-empty list     *)
(* returns fresh stage records, startTime and endTime not being written into *)
(* the definitions.                                                          *)
TimedFields == {"startTime", "endTime"}

C22_StagesTileTheCall ==
    (/\ Called("generateCallStages")
     /\ SentenceList # <<>>
     /\ SentenceList[Len(SentenceList)].end >= SentenceList[1].start)
    => LET stages == result.value
       IN  /\ Len(stages) >= 1
           /\ stages[1].startTime = SentenceList[1].start
           /\ stages[Len(stages)].endTime = SentenceList[Len(SentenceList)].end
           /\ \A k \in 2..Len(stages) : stages[k].startTime = stages[k - 1].endTime
           /\ \A k \in 1..Len(stages) : stages[k].startTime <= stages[k].endTime

\* a call that does not start at 0, one stage of which is rounded to no length
C22_Witness ==
    /\ Called("generateCallStages")
    /\ SentenceList # <<>>
    /\ SentenceList[1].start > 0
    /\ SentenceList[Len(SentenceList)].end > SentenceList[1].start
    /\ \E k \in 1..Len(result.value) : result.value[k].startTime = result.value[k].endTime
    /\ \E k \in 1..Len(result.value) : result.value[k].startTime < result.value[k].endTime

(* C23 - for a list sorted by start with end > start on every sentence, no   *)
(* sentence is dropped by groupSentencesByStage: the sizes of the stage      *)
(* groups sum to the number of sentences.                                    *)
RECURSIVE SumOfGroupSizes(_, _)
SumOfGroupSizes(groups, ids) ==
    IF ids = {} THEN 0
    ELSE LET id == CHOOSE x \in ids : TRUE
         IN  Len(groups[id].sentences) + SumOfGroupSizes(groups, ids \ {id})

C23_GroupSizesSumToLength ==
    (/\ Called("groupSentencesByStage")
     /\ SentenceList # <<>>
     /\ SortedByStart(SentenceList)
     /\ PositiveLength(SentenceList))
    => SumOfGroupSizes(result.value, DOMAIN result.value) = Len(SentenceList)

\* the sentences are spread over more than one group
C23_Witness ==
    /\ Called("groupSentencesByStage")
    /\ Len(SentenceList) >= 2
    /\ SortedByStart(SentenceList)
    /\ PositiveLength(SentenceList)
    /\ \E id1, id2 \in DOMAIN result.value :
           /\ id1 # id2
           /\ result.value[id1].sentences # <<>>
           /\ result.value[id2].sentences # <<>>

(* C24 - getStageForTime and groupSentencesByStage agree: for every sentence *)
(* s of a list, getStageForTime(s.start, generateCallStages(sentences)) is   *)
(* the stage whose group contains s.                                         *)
C24_StageForTimeAgreesWithGroups ==
    Called("getStageForTime")
    => LET groups == groupSentencesByStage(sentences)
       IN  \A i \in 1..Len(SentenceList) :
               SentenceList[i].start = result.timestamp
               => /\ result.value.id \in DOMAIN groups
                  /\ \E k \in 1..Len(groups[result.value.id].sentences) :
                         groups[result.value.id].sentences[k].ref = i

(* C29 - calculateStats and getConfidenceLevel use the same low-confidence   *)
(* boundary: lowConfidenceCount is the number of sentences getConfidenceLevel*)
(* classifies as low, and getConfidenceLevel gives every confidence exactly  *)
(* one of high (>= 0.9), medium (>= 0.7 and < 0.9) or low (< 0.7).           *)
C29_SameLowConfidenceBoundary ==
    /\ (Called("calculateStats") /\ SentenceList # <<>>)
       => result.value.lowConfidenceCount
              = Cardinality({i \in 1..Len(SentenceList) :
                    getConfidenceLevel(SentenceList[i].confidence).level = "low"})
    /\ Called("getConfidenceLevel")
       => /\ result.value.level \in {"high", "medium", "low"}
          /\ result.value.level = "high" <=> result.confidence >= 90
          /\ result.value.level = "medium" <=> (result.confidence >= 70 /\ result.confidence < 90)
          /\ result.value.level = "low" <=> result.confidence < 70

\* a confidence of exactly 0.7 has been classified, as medium
C29_Witness ==
    /\ Called("getConfidenceLevel")
    /\ result.confidence = 70
    /\ result.value.level = "medium"
    /\ \E i \in 1..Len(SentenceList) : SentenceList[i].confidence = 69

(* C30 - in the record calculateStats returns, speakerASentences +           *)
(* speakerBSentences = totalSentences and speakerATime + speakerBTime = the  *)
(* sum of end - start over all sentences, for every non-empty list, also one *)
(* with a speaker label other than A or B.                                   *)
C30_SpeakerCountsAndTimesAddUp ==
    (Called("calculateStats") /\ SentenceList # <<>>)
    => /\ result.value.speakerASentences + result.value.speakerBSentences
              = result.value.totalSentences
       /\ result.value.speakerATime + result.value.speakerBTime
              = TalkTimeAt(1..Len(SentenceList))

-----------------------------------------------------------------------------
(* Properties of the App *)

\* the sentences of the active stage's group
ActiveStageSentences == StageSentencesOf(SentenceList, activeStage)

\* no sentence of the active stage contains a citation of the item
MatchesNoStageSentence(item) ==
    \A k \in 1..Len(ActiveStageSentences) : \A j \in 1..Len(item.citations) :
        ~ContainsIgnoreCase(ActiveStageSentences[k].text, item.citations[j])

\* the matchCount rendered on the citation button of the item
matchCount(item) ==
    Len(findCitationMatches(Given(ActiveStageSentences), Given(item.citations)))

\* the number of matches the citation indicator lets the user navigate
NavigableMatches == IF activeCitations.isNull THEN 0 ELSE Len(activeCitations.matches)

(* C21 - a click on the citation button of an item whose patterns match no   *)
(* sentence of the active stage ends with activeCitations = null, whatever   *)
(* was active before, and with the active stage unchanged.                   *)
C21_ClickWithoutMatchClearsCitations ==
    (Called("handleCitationClick") /\ MatchesNoStageSentence(result.value.item))
    => /\ result.outcome = "returned"
       /\ activeCitations = NoCitations
       /\ activeStage = result.value.activeStage
       /\ ~loading

\* the button of an item without a match has been clicked in a stage where
\* another item has matches, after the auto-selection has run
C21_Witness ==
    /\ Called("handleCitationClick")
    /\ MatchesNoStageSentence(result.value.item)
    /\ activeCitations = NoCitations
    /\ initialSelectionDone
    /\ ~timeout.pending
    /\ activeStage = "introduction"
    /\ ~AutoSelection(SentenceList, activeStage).isNull
    /\ \E item \in ItemsWithButton : ~MatchesNoStageSentence(item)

(* C25 - the match count on a citation button equals the number of matches   *)
(* the user can navigate after clicking that button, also when two sentences *)
(* share a start time.                                                       *)
C25_ButtonCountEqualsNavigableMatches ==
    Called("handleCitationClick") => NavigableMatches = matchCount(result.value.item)

(* C26 - whenever activeCitations is non-null its match list is non-empty    *)
(* and 0 <= currentIndex < matches.length; next from the last match wraps to *)
(* 0, prev from 0 wraps to the last match, and next followed by prev         *)
(* restores the index.                                                       *)
C26_IndexWithinMatches ==
    /\ ~activeCitations.isNull
       => LET length == Len(activeCitations.matches)
              index  == activeCitations.currentIndex
              next   == navigateCitation(activeCitations, "next")
          IN  /\ length >= 1
              /\ 0 <= index /\ index < length
              /\ navigateCitation(next, "prev").currentIndex = index
              /\ next.matches = activeCitations.matches
    /\ Called("navigateCitation")
       => LET length == Len(activeCitations.matches)
              before == result.value.currentIndex
          IN  /\ ~activeCitations.isNull
              /\ result.value.direction = "next"
                 => activeCitations.currentIndex
                        = (IF before = length - 1 THEN 0 ELSE before + 1)
              /\ result.value.direction = "prev"
                 => activeCitations.currentIndex
                        = (IF before = 0 THEN length - 1 ELSE before - 1)

\* next has wrapped from the last of several matches to the first
C26_Witness ==
    /\ Called("navigateCitation")
    /\ result.value.direction = "next"
    /\ Len(activeCitations.matches) >= 2
    /\ result.value.currentIndex = Len(activeCitations.matches) - 1
    /\ activeCitations.currentIndex = 0

(* C27 - whenever activeCitations is non-null, every one of its matches is a *)
(* sentence of the active stage's group, under every interleaving of the     *)
(* deferred auto-selection with stage changes and citation clicks.           *)
C27_MatchesAreOfTheActiveStage ==
    ~activeCitations.isNull
    => \A m \in 1..Len(activeCitations.matches) :
           \E k \in 1..Len(ActiveStageSentences) :
               ActiveStageSentences[k].ref = activeCitations.matches[m].sentence.ref

(* C28 - the loading flag eventually becomes false whether the fetch         *)
(* succeeds or fails, and never returns to true; on success the sentence     *)
(* list is set to the loaded sentences together with loading becoming false, *)
(* on failure it stays empty, the statistics null and the grouping empty.    *)
C28_LoadingEnds ==
    /\ <>(~loading)
    /\ [][~loading => ~loading']_vars
    /\ [][ (loading /\ ~loading')
           => /\ ~sentences'.isNull
              /\ sentences'.items \in Transcripts
              /\ result'.fn = "fetch"
              /\ result'.value.settled = "rejected"
                 => /\ sentences'.items = <<>>
                    /\ calculateStats(sentences') = {[isNull |-> TRUE]}
                    /\ groupSentencesByStage(sentences') = <<>>
         ]_vars
    /\ [][~loading => sentences' = sentences]_vars

\* the fetch has failed: the load has ended with an empty sentence list
C28_Witness ==
    /\ Called("fetch")
    /\ result.value.settled = "rejected"
    /\ ~loading
    /\ ~fetchPending
    /\ SentenceList = <<>>
    /\ activeCitations = NoCitations

====
